---- MODULE Spec2Model ----
(***************************************************************************)
(* A model of AudioStore: the chunked audio store (lib/audiostore.js over  *)
(* lib/db.js), the Streamer playback scheduler (lib/streamer.js) and the   *)
(* StreamCoordinator (lib/streamcoordinator.js).                           *)
(*                                                                         *)
(* Store times are counted in ticks, TicksPerSecond ticks to the second,   *)
(* so that offsets and durations that fall between two samples exist.      *)
(* A 32-bit float sample is the pair <<lo, hi>> of its two 16-bit halves,  *)
(* which is what the string encoding of the store works on.                *)
(***************************************************************************)
EXTENDS Integers, Sequences, FiniteSets, TLC

\* ------------------------------------------------------------------ bounds

\* longest asset of the store model, in samples
MaxSamples == 4
\* most channels of an asset of the store model
MaxChannels == 2

\* ticks per second of the store model's time axis
TicksPerSecond == 2
\* sample rates (samples per second) of the store model; each divides TicksPerSecond
Rates == {1, TicksPerSecond}
\* values of the store's chunk duration option `duration`, in seconds
ChunkDurations == {1, 2}

\* ------------------------------------------------------------- code units

\* representatives of the classes of 16-bit code units
HighSurrogate == 55296
LowSurrogate == 56320
ByteOrderMark == 65279
ReplacementChar == 65533

IsHighSurrogate(u) == u >= 55296 /\ u <= 56319
IsLowSurrogate(u) == u >= 56320 /\ u <= 57343

\* the low halves a sample of the input may carry besides 0
SpecialUnits == {HighSurrogate, LowSurrogate, ByteOrderMark}

NULL == -999

Min(a, b) == IF a < b THEN a ELSE b
Max(a, b) == IF a > b THEN a ELSE b

\* floor and ceiling of ticks * rate / TicksPerSecond, for ticks >= 0
FloorSamples(ticks, rate) == (ticks * rate) \div TicksPerSecond
CeilSamples(ticks, rate) == (ticks * rate + TicksPerSecond - 1) \div TicksPerSecond

RECURSIVE Flatten(_)
Flatten(ss) == IF ss = <<>> THEN <<>> ELSE Head(ss) \o Flatten(Tail(ss))

\* Float32Array#subarray( start, end ): clamped to the array
Subarray(arr, start, end) ==
  LET s == Min(Max(start, 0), Len(arr))
      e == Min(Max(end, 0), Len(arr))
  IN IF e <= s THEN <<>> ELSE SubSeq(arr, s + 1, e)

\* the float 0 a fresh Float32Array or AudioBuffer holds
ZeroSample == <<0, 0>>

Zeros(n) == [i \in 1..n |-> ZeroSample]

\* TypedArray#set( src, index ) fits only inside the target
SetFits(arr, src, index) == index + Len(src) <= Len(arr)
SetAt(arr, src, index) ==
  [i \in 1..Len(arr) |->
     IF i > index /\ i <= index + Len(src) THEN src[i - index] ELSE arr[i]]

VARIABLES
  now,         \* ac.currentTime, in seconds
  streamers,   \* the Streamer objects: s -> its fields
  srcs,        \* the AudioBufferSourceNodes started so far, in order of their start() call
  fetches,     \* the getAudioBuffer promises of prime() and next() not settled yet
  timers,      \* the pending fetchtimer timeouts
  group,       \* the StreamCoordinator's fields
  barriers,    \* the Promise.all of each StreamCoordinator.stream call: id -> its state
  calls,       \* the number of transport calls made so far
  failures,    \* the number of fetches that failed so far
  ran,         \* the last call or callback that ran, and what it did
  opts,        \* the store's options: duration (D), blobs, and whether window has TextDecoder
  ab,          \* the decoded AudioBuffer handed to saveAudioBuffer
  dbChunks,    \* object store 'chunks': id (start second) -> record
  dbMetadata,  \* object store 'metadata': the set of its records (one asset name)
  savePc,      \* position of saveAudioBuffer
  got          \* what the last getAudioBuffer call returned

storeVars == <<opts, ab, dbChunks, dbMetadata, savePc, got>>

playVars == <<now, streamers, srcs, fetches, timers, group, barriers, calls, failures, ran>>

\* ------------------------------------------------------ the string encoding

\* TextDecoder('utf-16').decode: a leading byte order mark is dropped, a
\* surrogate that is not half of a pair decodes to U+FFFD
RECURSIVE DecodeUnits(_)
DecodeUnits(units) ==
  IF units = <<>> THEN <<>>
  ELSE LET u == Head(units) IN
    IF IsHighSurrogate(u) /\ Len(units) >= 2 /\ IsLowSurrogate(units[2])
      THEN <<u, units[2]>> \o DecodeUnits(Tail(Tail(units)))
    ELSE IF IsHighSurrogate(u) \/ IsLowSurrogate(u)
      THEN <<ReplacementChar>> \o DecodeUnits(Tail(units))
    ELSE <<u>> \o DecodeUnits(Tail(units))

TextDecoderDecode(units) ==
  IF units # <<>> /\ Head(units) = ByteOrderMark
    THEN DecodeUnits(Tail(units))
    ELSE DecodeUnits(units)

\* the String.fromCharCode loop: blocks of FromCharCodeBlock starting at i,
\* each cut at min( i + block, byteLength - i )
FromCharCodeBlock == 10000

RECURSIVE FromCharCodeLoop(_, _, _)
FromCharCodeLoop(i16, i, len) ==
  IF i >= len THEN <<>>
  ELSE Subarray(i16, i, Min(i + FromCharCodeBlock, len - i))
         \o FromCharCodeLoop(i16, i + FromCharCodeBlock, len)

float32ArrayToString(f32, hasTextDecoder) ==
  LET i16 == Flatten(f32)
  IN IF hasTextDecoder THEN TextDecoderDecode(i16)
     ELSE FromCharCodeLoop(i16, 0, 2 * Len(i16))

\* new Float32Array( i16.buffer ) throws unless the byte length is a multiple of 4
StringDecodable(str) == Len(str) % 2 = 0

stringToFloat32Array(str) ==
  [i \in 1..(Len(str) \div 2) |-> <<str[2 * i - 1], str[2 * i]>>]

\* --------------------------------------------------------------- the store

\* ab.duration, in ticks
AbDuration(buf) == (buf.length * TicksPerSecond) \div buf.sampleRate

audioBufferToMetadata(buf, o) ==
  [channels |-> buf.numberOfChannels,
   rate |-> buf.sampleRate,
   duration |-> AbDuration(buf),
   chunks |-> (AbDuration(buf) + o.duration * TicksPerSecond - 1)
                 \div (o.duration * TicksPerSecond)]

\* one record of audioBufferToRecords: the chunk starting at sample `offset`
ChunkLengthMutant(chunk, samples, offset) == chunk

ChunkLength(chunk, samples, offset) == Min(chunk, samples - offset)

ChunkRecord(buf, o, offset) ==
  LET chunk == buf.sampleRate * o.duration
      samples == FloorSamples(AbDuration(buf), buf.sampleRate)
      length == ChunkLength(chunk, samples, offset)
  IN [seconds |-> (offset * TicksPerSecond) \div buf.sampleRate,
      rate |-> buf.sampleRate,
      length |-> length,
      channels |-> [j \in 1..buf.numberOfChannels |->
         LET buffer == Subarray(buf.data[j], offset, offset + length)
         IN IF ~o.blobs THEN [str |-> TRUE,
                              data |-> float32ArrayToString(buffer, o.textDecoder)]
            ELSE [str |-> FALSE, data |-> buffer]]]

\* the sample offsets the loop of audioBufferToRecords visits
ChunkOffsets(buf, o) ==
  LET chunk == buf.sampleRate * o.duration
      samples == FloorSamples(AbDuration(buf), buf.sampleRate)
  IN {offset \in 0..(samples - 1) : offset % chunk = 0}

audioBufferToRecords(buf, o) == {ChunkRecord(buf, o, offset) : offset \in ChunkOffsets(buf, o)}

\* DB.saveRecords into 'chunks': one transaction, keyed by the record id
PutChunks(store, records) ==
  [id \in DOMAIN store \cup {r.seconds : r \in records} |->
     IF \E r \in records : r.seconds = id
       THEN CHOOSE r \in records : r.seconds = id
       ELSE store[id]]

\* parseChunk: the record with its channels as Float32Arrays
ChunkParses(record) ==
  \A j \in DOMAIN record.channels :
     record.channels[j].str => StringDecodable(record.channels[j].data)

parseChunk(record) ==
  [record EXCEPT !.channels = [j \in DOMAIN record.channels |->
     IF record.channels[j].str THEN stringToFloat32Array(record.channels[j].data)
     ELSE record.channels[j].data]]

\* the chunk start seconds (in ticks) the while loop of getAudioBuffer asks for
RECURSIVE ChunkSeconds(_, _, _, _, _)
ChunkSeconds(sec, offset, seconds, duration, step) ==
  IF sec - offset < seconds + duration
    THEN <<sec>> \o ChunkSeconds(sec + step, offset, seconds, duration, step)
    ELSE <<>>

\* getChunk succeeds: aligned, present and parseable
GetChunkOk(store, o, sec) ==
  /\ sec % (o.duration * TicksPerSecond) = 0
  /\ sec \in DOMAIN store
  /\ ChunkParses(store[sec])

RECURSIVE SumLengths(_)
SumLengths(chunks) == IF chunks = <<>> THEN 0 ELSE Head(chunks).length + SumLengths(Tail(chunks))

\* merged[ j ] after the set() calls of mergeChunks, chunk by chunk
RECURSIVE MergeInto(_, _, _, _)
MergeInto(merged, chunks, j, index) ==
  IF chunks = <<>> THEN merged
  ELSE MergeInto(SetAt(merged, Head(chunks).channels[j], index), Tail(chunks), j,
                 index + Head(chunks).length)

RECURSIVE MergeFits(_, _, _, _)
MergeFits(length, chunks, j, index) ==
  \/ chunks = <<>>
  \/ /\ j \in DOMAIN Head(chunks).channels
     /\ index + Len(Head(chunks).channels[j]) <= length
     /\ MergeFits(length, Tail(chunks), j, index + Head(chunks).length)

MergeOk(chunks, metadata) ==
  \A j \in 1..metadata.channels : MergeFits(SumLengths(chunks), chunks, j, 0)

mergeChunks(chunks, metadata, start, end) ==
  [j \in 1..metadata.channels |->
     LET merged == MergeInto(Zeros(SumLengths(chunks)), chunks, j, 0)
         f32 == Subarray(merged, start, end)
     IN SetAt(Zeros(end - start), f32, 0)]

\* getMetadata( name ): the record of the asset
getMetadata(metaStore) == CHOOSE m \in metaStore : TRUE

Failure(why) == [ok |-> FALSE, why |-> why, channels |-> <<>>, reads |-> <<>>]

\* if ( offset + duration > metadata.duration ) throw
BeyondTrackMutant(offset, duration, metadata) == FALSE

BeyondTrack(offset, duration, metadata) == offset + duration > metadata.duration

\* getAudioBuffer( name, offset, duration ), offset and duration in ticks
getAudioBuffer(store, metaStore, o, offset0, duration) ==
  IF metaStore = {} THEN Failure("no metadata")
  ELSE IF BeyondTrack(offset0, duration, getMetadata(metaStore))
    THEN Failure("beyond track duration")
  ELSE
    LET metadata == getMetadata(metaStore)
        rate == metadata.rate
        step == o.duration * TicksPerSecond
        seconds == (offset0 \div step) * step
        samples == CeilSamples(duration, rate)
        offset == offset0 - seconds
        first == FloorSamples(offset, rate)
        last == first + samples
        secs == ChunkSeconds(seconds, offset, seconds, duration, step)
    IN IF \E i \in DOMAIN secs : ~GetChunkOk(store, o, secs[i])
         THEN [Failure("chunk") EXCEPT !.reads = secs]
       ELSE LET chunks == [i \in DOMAIN secs |-> parseChunk(store[secs[i]])]
            IN IF ~MergeOk(chunks, metadata) \/ samples = 0
                 THEN [Failure("merge") EXCEPT !.reads = secs]
               ELSE [ok |-> TRUE, why |-> "", reads |-> secs,
                     channels |-> mergeChunks(chunks, metadata, first, last)]

\* ------------------------------------------------------------ the Streamer

\* the members of the StreamCoordinator; the Streamer used on its own is Solo
Streamers == {1, 2}
NStreamers == Cardinality(Streamers)
Solo == CHOOSE s \in Streamers : \A m \in Streamers : s <= m

\* seconds of audio one window holds at most: Math.min( 5, ... )
WindowSeconds == 5
\* the next fetch fires this long before the scheduled audio runs out: - 2000 ms
FetchLeadSeconds == 2

\* the durations an asset may turn out to have, in seconds
Durations == {4, 7}
\* the offsets the transport is called with; NULL is a call without an offset
Offsets == {NULL, 0, 3, 7}
\* the offsets the coordinator's transport is called with
GroupOffsets == {NULL, 0, 5}

\* the latest clock time at which the transport is called, and the most calls
\* of the Streamer's and of the StreamCoordinator's transport
LastCallTime == 2
MaxCalls == 3
MaxGroupCalls == 2
\* the longest a fetch or a callback takes: it is served before the lead runs out
MaxLatency == FetchLeadSeconds - 1
\* the latest clock time at which a load() settles
LastLoadTime == 1
\* the most fetches the store fails although it holds the window
MaxFailures == 1

\* null counts as 0 in arithmetic, and null and 0 are both falsy
Num(x) == IF x = NULL THEN 0 ELSE x
Falsy(x) == x = NULL \/ x = 0

\* the scheduler's state as one value, for the operations to work on
World ==
  [streamers |-> streamers, srcs |-> srcs, fetches |-> fetches, timers |-> timers,
   group |-> group, barriers |-> barriers]

\* typeof offset !== 'number': the stored offset, or 0
DefaultOffset(offset, startOffset) ==
  IF offset # NULL THEN offset ELSE IF startOffset # NULL THEN startOffset ELSE 0

\* Streamer.stop()
StreamerStopGuardMutant(st) == FALSE

StreamerStopGuard(st) == st.stopped \/ ~st.ready

NewChainMutant(active) == active

NewChainReused(active) == 1

NewChain(active) == active + 1

\* clearTimeout( this.fetchtimer )
ClearTimeoutMutant(pending, fetchtimer) == pending

ClearTimeout(pending, fetchtimer) == pending \ fetchtimer

StreamerStop(W, s) ==
  LET st == W.streamers[s]
      elapsed == now - Num(st.startTime)
      offset == Num(st.startOffset) + elapsed
  IN IF StreamerStopGuard(st) THEN W
     ELSE [W EXCEPT
            !.streamers[s].stopped = TRUE,
            !.streamers[s].active = NewChain(st.active),
            !.streamers[s].startTime = NULL,
            !.streamers[s].startOffset = IF offset >= st.duration THEN 0 ELSE offset,
            !.timers = ClearTimeout(@, st.fetchtimer)]

\* when += dur: the clock time at which the window after this one starts
WhenAfterMutant(when, dur) == when + dur + 1

WhenAfter(when, dur) == when + dur

\* fetchtime: the clock time the fetch timer is set to, the lead before `when`
FetchTimeMutant(when) == when - WindowSeconds

FetchTime(when) == when - FetchLeadSeconds

\* play( src, when, offset, output ) inside stream()
Play(W, s, dur, when, offset, output) ==
  LET st == W.streamers[s]
      id == Len(W.srcs) + 1
      when2 == WhenAfter(when, dur)
      offset2 == offset + dur
      final == offset2 >= st.duration
      src == [owner |-> s, when |-> when, offset |-> offset, dur |-> dur,
              output |-> output, onended |-> IF final THEN "stop" ELSE "none",
              end |-> Max(when, now) + dur, ended |-> FALSE, stale |-> FALSE]
      timer == [owner |-> s, due |-> Max(now, FetchTime(when2)),
                when |-> when2, offset |-> offset2, output |-> output]
  IN IF final
       THEN [W EXCEPT !.srcs = Append(@, src), !.streamers[s].ending = {id}]
       ELSE [W EXCEPT !.srcs = Append(@, src),
                      !.timers = @ \cup {timer},
                      !.streamers[s].fetchtimer = {timer}]

\* next( when, offset, output ) inside stream(), up to the getAudioBuffer call
NextFetch(W, s, when, offset, output) ==
  LET chunkDuration == Min(WindowSeconds, W.streamers[s].duration - offset)
  IN [W EXCEPT !.fetches = @ \cup
        {[kind |-> "next", owner |-> s, when |-> when, offset |-> offset,
          dur |-> chunkDuration, output |-> output, barrier |-> 0,
          issued |-> now, cancelled |-> FALSE]}]

\* the store can serve the window: it lies inside the asset and is not empty
Servable(f, duration) == f.offset >= 0 /\ f.dur > 0 /\ f.offset + f.dur <= duration

\* the .then of next(): the fetched window is discarded, or scheduled
IsStale(st, output) == st.stopped \/ output # st.active

NextThen(W, f) ==
  LET s == f.owner
      st == W.streamers[s]
      when == IF f.when = 0 THEN now ELSE f.when
      W1 == IF st.startTime = NULL
              THEN [W EXCEPT !.streamers[s].startTime = when]
              ELSE W
  IN IF IsStale(st, f.output) THEN W
     ELSE Play(W1, s, f.dur, when, f.offset, f.output)

\* the error stream() throws before it changes anything, "none" if it goes ahead
StreamErrorMutant(st) == IF ~st.ready THEN "not loaded" ELSE "none"

StreamError(st) ==
  IF ~st.ready THEN "not loaded"
  ELSE IF ~st.stopped THEN "already playing"
  ELSE "none"

\* if ( this.ending ) { this.ending.onended = () => {}; this.ending = null }
CancelEndingMutant(W, s) == [W EXCEPT !.streamers[s].ending = {}]

CancelEnding(W, s) ==
  [W EXCEPT
     !.srcs = [i \in DOMAIN @ |->
                 IF i \in W.streamers[s].ending THEN [@[i] EXCEPT !.onended = "noop"]
                 ELSE @[i]],
     !.streamers[s].ending = {}]

\* primed && primed.offset === offset: the primed segment stream( offset ) plays
UsableMutant(primed, offset) == primed

Usable(primed, offset) == {p \in primed : p.offset = offset}

\* Streamer.stream( offset ): the world after the call, and whether it threw
StreamerStream(W, s, offsetArg) ==
  LET st == W.streamers[s]
      offset == DefaultOffset(offsetArg, st.startOffset)
      W1 == CancelEnding(W, s)
      W2 == [W1 EXCEPT !.streamers[s].stopped = FALSE,
                       !.streamers[s].startOffset = offset,
                       !.streamers[s].primed = {}]
      usable == Usable(st.primed, offset)
  IN IF StreamError(st) # "none" THEN [w |-> W, threw |-> TRUE]
     ELSE IF offset >= st.duration THEN [w |-> StreamerStop(W1, s), threw |-> FALSE]
     ELSE IF usable # {}
       THEN [w |-> Play(W2, s, (CHOOSE p \in usable : TRUE).dur, now, offset, st.active),
             threw |-> FALSE]
     ELSE [w |-> NextFetch(W2, s, 0, offset, st.active), threw |-> FALSE]

\* Streamer.currentTime()
StreamerCurrentTime(st) ==
  IF st.stopped THEN st.startOffset
  ELSE LET start == IF Falsy(st.startTime) THEN now ELSE st.startTime
           offset == IF Falsy(st.startOffset) THEN 0 ELSE st.startOffset
       IN offset + (now - start)

\* Streamer.seek( offset )
StreamerSeekMutant(W, s, offset) == StreamerStream(StreamerStop(W, s), s, offset)

StreamerSeekNoStop(W, s, offset) ==
  IF ~W.streamers[s].stopped
    THEN StreamerStream(W, s, offset)
    ELSE [w |-> [W EXCEPT !.streamers[s].startOffset = offset], threw |-> FALSE]

StreamerSeek(W, s, offset) ==
  IF ~W.streamers[s].stopped
    THEN StreamerStream(StreamerStop(W, s), s, offset)
    ELSE [w |-> [W EXCEPT !.streamers[s].startOffset = offset], threw |-> FALSE]

\* Streamer.prime( offset ), up to the getAudioBuffer call; `barrier` names the
\* Promise.all waiting for it, 0 for none
StreamerPrime(W, s, offsetArg, barrier) ==
  LET st == W.streamers[s]
      offset == DefaultOffset(offsetArg, st.startOffset)
      duration == Min(WindowSeconds, st.duration - offset)
  IN IF ~st.ready \/ offset >= st.duration THEN [w |-> W, threw |-> TRUE]
     ELSE [w |-> [W EXCEPT !.fetches = @ \cup
                    {[kind |-> "prime", owner |-> s, when |-> 0, offset |-> offset,
                      dur |-> duration, output |-> 0, barrier |-> barrier,
                      issued |-> now, cancelled |-> FALSE]}],
           threw |-> FALSE]

\* prime() after its await: the window is staged
PrimeThenMutant(W, f) ==
  [W EXCEPT !.streamers[f.owner].primed = {[offset |-> f.offset, dur |-> f.dur]},
            !.streamers[f.owner].startOffset = f.offset]

PrimeThen(W, f) ==
  [W EXCEPT !.streamers[f.owner].primed = {[offset |-> f.offset, dur |-> f.dur]}]

\* ---------------------------------------------------- the StreamCoordinator

\* x >= this.duration, which is false while the duration is undefined
AtOrPastMutant(x, duration) == duration # NULL /\ x > duration

AtOrPast(x, duration) == duration # NULL /\ x >= duration

\* streamers.forEach( streamer => streamer.stop() ), from streamer s on
RECURSIVE StopEach(_, _)
StopEach(W, s) == IF s > NStreamers THEN W ELSE StopEach(StreamerStop(W, s), s + 1)

\* streamers.forEach( streamer => streamer.stream( offset ) ), from streamer s
\* on; a throw ends the loop
RECURSIVE StreamEach(_, _, _)
StreamEach(W, s, offset) ==
  IF s > NStreamers THEN W
  ELSE LET r == StreamerStream(W, s, offset)
       IN IF r.threw THEN r.w ELSE StreamEach(r.w, s + 1, offset)

\* streamers.map( streamer => streamer.prime( offset ) ), from streamer s on
RECURSIVE PrimeEach(_, _, _, _)
PrimeEach(W, s, offset, barrier) ==
  IF s > NStreamers THEN W
  ELSE PrimeEach(StreamerPrime(W, s, offset, barrier).w, s + 1, offset, barrier)

\* StreamCoordinator.stream( offset )
CoordinatorStream(W, offsetArg) ==
  LET offset == DefaultOffset(offsetArg, W.group.startOffset)
      b == Len(W.barriers) + 1
      W1 == PrimeEach(W, 1, offset, b)
      threw == {s \in Streamers : StreamerPrime(W, s, offset, b).threw}
  IN [W1 EXCEPT
        !.barriers = Append(@, [offset |-> offset, pending |-> Streamers \ threw,
                                rejected |-> threw # {}, started |-> {}]),
        !.group.stopped = FALSE,
        !.group.startOffset = offset]

\* Promise.all( promises ) is fulfilled: every prime has resolved
BarrierReadyMutant(bar) == ~bar.rejected

BarrierReady(bar) == bar.pending = {} /\ ~bar.rejected

\* the .then of Promise.all( promises ) in stream()
BarrierThen(W, b) ==
  LET W1 == IF W.group.startTime = NULL THEN [W EXCEPT !.group.startTime = now] ELSE W
  IN StreamEach(W1, 1, W.barriers[b].offset)

\* StreamCoordinator.stop()
CoordinatorStop(W) ==
  LET W1 == StopEach(W, 1)
      offset == Num(W.group.startOffset) + (now - Num(W.group.startTime))
  IN IF W.group.stopped THEN W
     ELSE [W1 EXCEPT
             !.group.stopped = TRUE,
             !.group.startTime = NULL,
             !.group.startOffset = IF AtOrPast(offset, W.group.duration) THEN 0 ELSE offset]

\* StreamCoordinator.currentTime(): the world after the call, and the value returned
CoordinatorCurrentTime(W) ==
  LET g == W.group
      start == IF Falsy(g.startTime) THEN now ELSE g.startTime
      offset == IF Falsy(g.startOffset) THEN 0 ELSE g.startOffset
      current == offset + (now - start)
  IN IF g.stopped THEN [w |-> W, value |-> g.startOffset]
     ELSE IF AtOrPast(current, g.duration) THEN [w |-> CoordinatorStop(W), value |-> 0]
     ELSE [w |-> W, value |-> current]

\* StreamCoordinator.seek( offset )
CoordinatorSeek(W, offset) ==
  IF ~W.group.stopped
    THEN CoordinatorStream(CoordinatorStop(W), offset)
    ELSE [W EXCEPT !.group.startOffset = offset]

\* the indexes solo() is called with: the members', counted from 0, and one
\* past the last
SoloIndexes == 0..NStreamers

\* StreamCoordinator.solo( index ): the world after the call, and whether
\* this.streamers[ index ] was undefined and the call threw
CoordinatorSoloMutant(W, index) ==
  IF index + 1 \in Streamers
    THEN [w |-> [W EXCEPT !.streamers[index + 1].gain = 1], threw |-> FALSE]
    ELSE [w |-> W, threw |-> TRUE]

CoordinatorSolo(W, index) ==
  LET W1 == [W EXCEPT !.streamers = [s \in Streamers |-> [@[s] EXCEPT !.gain = 0]]]
  IN IF index + 1 \in Streamers
       THEN [w |-> [W1 EXCEPT !.streamers[index + 1].gain = 1], threw |-> FALSE]
       ELSE [w |-> W1, threw |-> TRUE]

\* ---------------------------------------------- the scheduler's state machine

InitPlay ==
  /\ now = 1
  /\ streamers = [s \in Streamers |->
       [ready |-> FALSE, stopped |-> TRUE, startTime |-> NULL, startOffset |-> NULL,
        duration |-> NULL, active |-> 1, primed |-> {}, ending |-> {},
        fetchtimer |-> {}, gain |-> 1]]
  /\ srcs = <<>>
  /\ fetches = {}
  /\ timers = {}
  /\ group = [stopped |-> TRUE, startTime |-> NULL, startOffset |-> NULL,
              duration |-> NULL]
  /\ barriers = <<>>
  /\ calls = 0
  /\ failures = 0
  /\ ran = [op |-> "new", arg |-> 0, was |-> FALSE, res |-> FALSE]

\* the clock stops at MaxClock, late enough for the last call's audio to end
LongestDuration == CHOOSE d \in Durations : \A e \in Durations : e <= d
MaxClock == LastCallTime + LongestDuration + 2 * MaxLatency + 1

Put(W) ==
  /\ streamers' = W.streamers
  /\ srcs' = W.srcs
  /\ fetches' = W.fetches
  /\ timers' = W.timers
  /\ group' = W.group
  /\ barriers' = W.barriers

\* a stop() or seek() is about to run on streamer s: the fetches its look-ahead
\* loop has in flight are marked
Cancel(W, s) ==
  [W EXCEPT !.fetches = {IF f.owner = s /\ f.kind = "next"
                           THEN [f EXCEPT !.cancelled = TRUE] ELSE f : f \in @}]

MayCall == calls < MaxCalls /\ now <= LastCallTime
MayCallGroup == calls < MaxGroupCalls /\ now <= LastCallTime

Called(op, arg, was, res) ==
  /\ calls' = calls + 1
  /\ ran' = [op |-> op, arg |-> arg, was |-> was, res |-> res]
  /\ UNCHANGED <<now, failures, storeVars>>

Ran(op, arg, was, res) ==
  /\ ran' = [op |-> op, arg |-> arg, was |-> was, res |-> res]
  /\ failures' = IF op = "catch" THEN failures + 1 ELSE failures
  /\ UNCHANGED <<now, calls, storeVars>>

\* the connected source s plays, the fetch or the timer that is overdue
Overdue ==
  \/ \E f \in fetches : now >= f.issued + MaxLatency
  \/ \E t \in timers : now >= t.due + MaxLatency
  \/ \E i \in DOMAIN srcs :
       /\ ~srcs[i].ended
       /\ srcs[i].onended = "stop"
       /\ srcs[i].output = streamers[srcs[i].owner].active
       /\ now >= srcs[i].end + MaxLatency

\* something can still happen: a call, a callback, or the end of the asset
Busy(maxCalls) ==
  \/ calls < maxCalls /\ now < LastCallTime
  \/ fetches # {}
  \/ timers # {}
  \/ \E i \in DOMAIN srcs :
       /\ ~srcs[i].ended
       /\ srcs[i].onended = "stop"
       /\ srcs[i].output = streamers[srcs[i].owner].active

\* the audio clock advances by a second
Advance(maxCalls) ==
  /\ now < MaxClock
  /\ ~Overdue
  /\ Busy(maxCalls)
  /\ now' = now + 1
  /\ UNCHANGED <<streamers, srcs, fetches, timers, group, barriers, calls, failures, ran, storeVars>>

Tick == Advance(MaxCalls)

GroupTick == Advance(MaxGroupCalls)

\* Streamer.load() settles: the asset's duration is known and the streamer ready
Load(s) ==
  /\ ~streamers[s].ready
  /\ now <= LastLoadTime
  /\ \E d \in Durations :
       Put([World EXCEPT !.streamers[s].duration = d, !.streamers[s].ready = TRUE])
  /\ Ran("load", s, FALSE, FALSE)

\* what a load() that rejects leaves of the streamer: it assigns nothing
LoadFailureMutant(st) == [st EXCEPT !.ready = TRUE]

LoadFailure(st) == st

\* Streamer.load() rejects: the request, the decoding or the save failed
LoadFails(s) ==
  /\ ~streamers[s].ready
  /\ now <= LastLoadTime
  /\ Put([World EXCEPT !.streamers[s] = LoadFailure(@)])
  /\ Ran("loadFailed", s, streamers[s].ready, FALSE)

\* Streamer.currentTime(): it returns the cursor and changes nothing
CurrentTime(s) ==
  /\ MayCall
  /\ Put(World)
  /\ Called("currentTime", StreamerCurrentTime(streamers[s]), streamers[s].stopped, FALSE)

\* the transport of the Streamer used on its own
Stream(s) ==
  /\ MayCall
  /\ \E offset \in Offsets :
       LET r == StreamerStream(World, s, offset)
       IN /\ Put(r.w)
          /\ Called("stream", offset, streamers[s].stopped, r.threw)

Stop(s) ==
  /\ MayCall
  /\ Put(StreamerStop(Cancel(World, s), s))
  /\ Called("stop", 0, streamers[s].stopped, FALSE)

Seek(s) ==
  /\ MayCall
  /\ \E offset \in Offsets \ {NULL} :
       LET r == StreamerSeek(Cancel(World, s), s, offset)
       IN /\ Put(r.w)
          /\ Called("seek", offset, streamers[s].stopped, r.threw)

Prime(s) ==
  /\ MayCall
  /\ \E offset \in Offsets :
       LET r == StreamerPrime(World, s, offset, 0)
       IN /\ Put(r.w)
          /\ Called("prime", offset, streamers[s].stopped, r.threw)

\* a fetch of next() resolves with its window
NextResolves(f) ==
  /\ f.kind = "next"
  /\ Servable(f, streamers[f.owner].duration)
  /\ LET W == [World EXCEPT !.fetches = @ \ {f}]
         W1 == NextThen(W, f)
         scheduled == Len(W1.srcs) > Len(srcs)
     IN /\ Put([W1 EXCEPT !.srcs = [i \in DOMAIN @ |->
                  IF i > Len(srcs) THEN [@[i] EXCEPT !.stale = f.cancelled] ELSE @[i]]])
        /\ Ran("then", 0, f.cancelled, scheduled)

\* the .catch of next(): the error is logged, the fetch is over
NextCatchMutant(W, f) == [W EXCEPT !.fetches = (@ \ {f}) \cup {[f EXCEPT !.issued = now]}]

NextCatch(W, f) == [W EXCEPT !.fetches = @ \ {f}]

\* a fetch of next() fails: the .catch logs it
NextFails(f) ==
  /\ f.kind = "next"
  /\ failures < MaxFailures \/ ~Servable(f, streamers[f.owner].duration)
  /\ Put(NextCatch(World, f))
  /\ Ran("catch", f.output, f.cancelled, FALSE)

\* the fetch of a prime() resolves; the last one of a Promise.all fulfils it
PrimeResolves(f) ==
  /\ f.kind = "prime"
  /\ Servable(f, streamers[f.owner].duration)
  /\ LET W == PrimeThen([World EXCEPT !.fetches = @ \ {f}], f)
         b == f.barrier
         W1 == [W EXCEPT !.barriers[b].pending = @ \ {f.owner}]
         fire == BarrierReady(W1.barriers[b]) /\ W1.barriers[b].started = {}
         W2 == [BarrierThen(W1, b) EXCEPT !.barriers[b].started = Streamers]
     IN /\ Put(IF b = 0 THEN W ELSE IF fire THEN W2 ELSE W1)
        /\ Ran("primed", b, b # 0, b # 0 /\ fire)

\* the fetch of a prime() fails, and so does the Promise.all waiting for it
PrimeFails(f) ==
  /\ f.kind = "prime"
  /\ failures < MaxFailures \/ ~Servable(f, streamers[f.owner].duration)
  /\ LET W == [World EXCEPT !.fetches = @ \ {f}]
         b == f.barrier
     IN Put(IF b = 0 THEN W
            ELSE [W EXCEPT !.barriers[b].pending = @ \ {f.owner},
                           !.barriers[b].rejected = TRUE])
  /\ Ran("catch", 0, FALSE, FALSE)

\* a fetchtimer fires: next( when, offset, output )
TimerFires(t) ==
  /\ now >= t.due
  /\ Put(NextFetch([World EXCEPT !.timers = @ \ {t}], t.owner, t.when, t.offset, t.output))
  /\ Ran("timer", 0, FALSE, FALSE)

\* src.onended, as play() or a later stream() has set it
EndedHandler(W, i) ==
  IF W.srcs[i].onended = "stop" THEN StreamerStop(W, W.srcs[i].owner) ELSE W

\* the ended event of a final source whose handler a later stream() has
\* replaced by () => {}
EndedStale(i) ==
  /\ ~srcs[i].ended
  /\ srcs[i].onended = "noop"
  /\ now >= srcs[i].end
  /\ Put(EndedHandler([World EXCEPT !.srcs[i].ended = TRUE], i))
  /\ Ran("ended", i, streamers[srcs[i].owner].stopped, FALSE)

\* the ended event of source i: its onended handler runs
Ended(i) ==
  /\ ~srcs[i].ended
  /\ srcs[i].onended = "stop"
  /\ now >= srcs[i].end
  /\ LET W == [World EXCEPT !.srcs[i].ended = TRUE]
         s == srcs[i].owner
     IN Put(EndedHandler(Cancel(W, s), i))
  /\ Ran("ended", i, streamers[srcs[i].owner].stopped, srcs[i].onended = "stop")

Callbacks ==
  \/ \E f \in fetches : NextResolves(f)
  \/ \E f \in fetches : NextFails(f)
  \/ \E f \in fetches : PrimeResolves(f)
  \/ \E f \in fetches : PrimeFails(f)
  \/ \E t \in timers : TimerFires(t)
  \/ \E i \in DOMAIN srcs : Ended(i)

NextSolo ==
  \/ Tick
  \/ Load(Solo)
  \/ LoadFails(Solo)
  \/ CurrentTime(Solo)
  \/ Stream(Solo)
  \/ Stop(Solo)
  \/ Seek(Solo)
  \/ Prime(Solo)
  \/ Callbacks
  \/ \E i \in DOMAIN srcs : EndedStale(i)

\* the Streamer started, stopped, sought and primed, and its look-ahead loop
NextLoop ==
  \/ Tick
  \/ Load(Solo)
  \/ Stream(Solo)
  \/ Stop(Solo)
  \/ Seek(Solo)
  \/ Prime(Solo)
  \/ Callbacks
  \/ \E i \in DOMAIN srcs : EndedStale(i)

\* the transport of the StreamCoordinator

RECURSIVE CancelEach(_, _)
CancelEach(W, s) == IF s > NStreamers THEN W ELSE CancelEach(Cancel(W, s), s + 1)

\* a member's load() of StreamCoordinator.load() settles; after the last one
\* the .then takes the longest duration as the coordinator's
MemberLoads(s) ==
  /\ ~streamers[s].ready
  /\ now <= LastLoadTime
  /\ \E d \in Durations :
       LET W == [World EXCEPT !.streamers[s].duration = d, !.streamers[s].ready = TRUE]
           all == \A m \in Streamers : W.streamers[m].ready
           longest == CHOOSE x \in {W.streamers[m].duration : m \in Streamers} :
                        \A m \in Streamers : W.streamers[m].duration <= x
       IN Put(IF all THEN [W EXCEPT !.group.duration = longest] ELSE W)
  /\ Ran("load", s, FALSE, FALSE)

GroupStream ==
  /\ MayCallGroup
  /\ \E offset \in GroupOffsets :
       /\ Put(CoordinatorStream(World, offset))
       /\ Called("gstream", offset, group.stopped, FALSE)

\* stop() may also follow the last call when the coordinator is stopped already
GroupStop ==
  /\ MayCallGroup \/ (group.stopped /\ calls = MaxGroupCalls /\ now <= LastCallTime)
  /\ Put(CoordinatorStop(CancelEach(World, 1)))
  /\ Called("gstop", 0, group.stopped, FALSE)

GroupSeek ==
  /\ MayCallGroup
  /\ \E offset \in GroupOffsets \ {NULL} :
       /\ Put(CoordinatorSeek(CancelEach(World, 1), offset))
       /\ Called("gseek", offset, group.stopped, FALSE)

GroupCurrentTime ==
  /\ MayCallGroup
  /\ LET r == CoordinatorCurrentTime(World)
     IN /\ Put(IF r.w # World THEN CoordinatorCurrentTime(CancelEach(World, 1)).w ELSE r.w)
        /\ Called("gcurrentTime", r.value, group.stopped, r.w # World)

NextGroup ==
  \/ GroupTick
  \/ \E s \in Streamers : MemberLoads(s)
  \/ GroupStream
  \/ GroupStop
  \/ GroupSeek
  \/ GroupCurrentTime
  \/ Callbacks

\* StreamCoordinator.solo( index ) is called
GroupSolo ==
  /\ MayCallGroup
  /\ \E index \in SoloIndexes :
       LET r == CoordinatorSolo(World, index)
       IN /\ Put(r.w)
          /\ Called("solo", index, group.stopped, r.threw)

\* stream() on a coordinator that is stopped
GroupStart == group.stopped /\ GroupStream

\* the coordinator started once and then only sought
NextSeek ==
  \/ GroupTick
  \/ \E s \in Streamers : MemberLoads(s)
  \/ GroupStart
  \/ GroupSeek
  \/ Callbacks

\* currentTime() polled at any time, as a display does
GroupPoll ==
  /\ calls < MaxGroupCalls
  /\ LET r == CoordinatorCurrentTime(World)
     IN /\ Put(IF r.w # World THEN CoordinatorCurrentTime(CancelEach(World, 1)).w ELSE r.w)
        /\ Called("gcurrentTime", r.value, group.stopped, r.w # World)

\* the coordinator started, soloed and polled
NextMixer ==
  \/ GroupTick
  \/ \E s \in Streamers : MemberLoads(s)
  \/ GroupStart
  \/ GroupSolo
  \/ GroupPoll
  \/ Callbacks

\* ------------------------------------------------- the store's state machine

\* the input buffers: sample i of channel j carries the tag 256 * j + i in its
\* high half and 0 in its low half, but for one sample whose low half is `unit`
MakeBuffer(rate, n, c, sj, si, unit) ==
  [sampleRate |-> rate, length |-> n, numberOfChannels |-> c,
   data |-> [j \in 1..c |-> [i \in 1..n |->
      <<IF j = sj /\ i = si THEN unit ELSE 0, 256 * j + i>>]]]

Buffers ==
  {MakeBuffer(rate, n, c, 0, 0, 0) :
     rate \in Rates, n \in 1..MaxSamples, c \in 1..MaxChannels}
  \cup UNION {UNION {{MakeBuffer(rate, n, c, sj, si, unit) :
                        rate \in Rates, unit \in SpecialUnits, sj \in 1..c, si \in 1..n} :
                     n \in 1..MaxSamples} : c \in 1..MaxChannels}

NoResult == [called |-> FALSE, saved |-> FALSE, offset |-> 0, duration |-> 0,
             result |-> Failure("")]

InitStore ==
  /\ opts \in [duration : ChunkDurations, blobs : BOOLEAN, textDecoder : BOOLEAN]
  /\ ab \in Buffers
  /\ dbChunks = <<>>
  /\ dbMetadata = {}
  /\ savePc = 0
  /\ got = NoResult

\* saveAudioBuffer awaits these two writes in this order
SaveOrderMutant == <<"metadata", "chunks">>

SaveOrder == <<"chunks", "metadata">>

SaveFailed == Len(SaveOrder) + 1

\* saveAudioBuffer: the next awaited saveRecords transaction commits
SaveStep ==
  /\ savePc \in 0..1
  /\ savePc' = savePc + 1
  /\ IF SaveOrder[savePc + 1] = "chunks"
       THEN /\ dbChunks' = PutChunks(dbChunks, audioBufferToRecords(ab, opts))
            /\ UNCHANGED dbMetadata
       ELSE /\ dbMetadata' = {audioBufferToMetadata(ab, opts)}
            /\ UNCHANGED dbChunks
  /\ UNCHANGED <<opts, ab, got, playVars>>

\* saveAudioBuffer: the next transaction fails, the save rejects and writes no more
SaveFails ==
  /\ savePc \in 0..1
  /\ savePc' = SaveFailed
  /\ UNCHANGED <<opts, ab, dbChunks, dbMetadata, got, playVars>>

\* a reader calls getAudioBuffer( name, offset, duration ); reads change nothing
\* in the store, so the model follows one read from each state of the store
GetAudioBuffer ==
  /\ ~got.called
  /\ \E offset \in 0..AbDuration(ab) :
    \E duration \in 1..(AbDuration(ab) - offset + 1) :
      /\ got' = [called |-> TRUE, saved |-> savePc = 2, offset |-> offset,
                 duration |-> duration,
                 result |-> getAudioBuffer(dbChunks, dbMetadata, opts, offset, duration)]
      /\ UNCHANGED <<opts, ab, dbChunks, dbMetadata, savePc, playVars>>

NextStore == SaveStep \/ SaveFails \/ GetAudioBuffer

\* ------------------------------------------------------ claims on the store

\* the slice of the input a window [offset, offset + duration) stands for
ExpectedWindow(offset, duration) ==
  LET first == FloorSamples(offset, ab.sampleRate)
      samples == CeilSamples(duration, ab.sampleRate)
  IN [j \in 1..ab.numberOfChannels |-> Subarray(ab.data[j], first, first + samples)]

\* C4: a saved asset read back over [0, totalDuration) equals the input,
\* channel by channel, sample by sample
RoundTrip ==
  (got.called /\ got.saved /\ got.offset = 0 /\ got.duration = AbDuration(ab))
    => (got.result.ok /\ got.result.channels = ab.data)

\* the round trip with Blob records, or with strings built by String.fromCharCode
RoundTripBinary ==
  (got.called /\ got.saved /\ got.offset = 0 /\ got.duration = AbDuration(ab)
     /\ (opts.blobs \/ ~opts.textDecoder))
    => (got.result.ok /\ got.result.channels = ab.data)

\* C5: a window inside the asset has ceil(duration * rate) samples per channel,
\* the input's samples from index floor(offset * rate) on
Windowing ==
  (got.called /\ got.saved /\ got.offset + got.duration <= AbDuration(ab))
    => /\ got.result.ok
       /\ \A j \in 1..ab.numberOfChannels :
            Len(got.result.channels[j]) = CeilSamples(got.duration, ab.sampleRate)
       /\ got.result.channels = ExpectedWindow(got.offset, got.duration)

\* the windowing with Blob records, or with strings built by String.fromCharCode
WindowingBinary ==
  (got.called /\ got.saved /\ got.offset + got.duration <= AbDuration(ab)
     /\ (opts.blobs \/ ~opts.textDecoder))
    => /\ got.result.ok
       /\ \A j \in 1..ab.numberOfChannels :
            Len(got.result.channels[j]) = CeilSamples(got.duration, ab.sampleRate)
       /\ got.result.channels = ExpectedWindow(got.offset, got.duration)

\* duration of a chunk record, in ticks
RecordTicks(r) == (r.length * TicksPerSecond) \div r.rate

ChunksWritten == savePc \in 1..2

\* C6: the chunk records written start at 0, D, 2D, ...; each is D long but the
\* last, which is longer than 0 and at most D; together they cover
\* [0, totalDuration) with no gap and no overlap
ChunkTiling ==
  ChunksWritten =>
    LET step == opts.duration * TicksPerSecond
        total == AbDuration(ab)
        count == (total + step - 1) \div step
    IN /\ DOMAIN dbChunks = {k * step : k \in 0..(count - 1)}
       /\ \A s \in DOMAIN dbChunks :
            /\ dbChunks[s].seconds = s
            /\ RecordTicks(dbChunks[s]) > 0
            /\ RecordTicks(dbChunks[s]) = IF s + step <= total THEN step ELSE total - s
       /\ \A s, t \in DOMAIN dbChunks :
            s < t => s + RecordTicks(dbChunks[s]) <= t

\* an asset of more than one chunk whose last chunk is short has been saved
ChunkTilingWitness ==
  /\ ChunksWritten
  /\ Cardinality(DOMAIN dbChunks) >= 2
  /\ \E s \in DOMAIN dbChunks : RecordTicks(dbChunks[s]) < opts.duration * TicksPerSecond

\* C7: whenever the metadata record is in the store, every chunk it implies is too
MetadataLast ==
  dbMetadata # {} =>
    \A k \in 0..(getMetadata(dbMetadata).chunks - 1) :
      k * opts.duration * TicksPerSecond \in DOMAIN dbChunks

\* the metadata of an asset of several chunks is in the store
MetadataLastWitness ==
  /\ dbMetadata # {}
  /\ getMetadata(dbMetadata).chunks >= 2
  /\ savePc = 2

\* -------------------------------------------------- claims on the scheduler

\* C1: a window whose fetch was in flight when stop() or seek() ran on its
\* streamer is never scheduled for output, whatever ran in between
StaleFetchImmunity ==
  /\ \A i \in DOMAIN srcs : ~srcs[i].stale
  /\ (ran.op = "then" /\ ran.was) => ~ran.res

\* the fetch of a stopped run has resolved while the streamer was running again
StaleFetchImmunityWitness ==
  /\ ran.op = "then"
  /\ ran.was
  /\ ~streamers[Solo].stopped

\* C2: the members are streamed by a StreamCoordinator.stream call only once
\* the prime of every member has resolved, and a member is never running
\* without that
GroupBarrier ==
  /\ \A b \in DOMAIN barriers :
       barriers[b].started # {} => (barriers[b].pending = {} /\ ~barriers[b].rejected)
  /\ \A s \in Streamers :
       ~streamers[s].stopped => \E b \in DOMAIN barriers : barriers[b].started # {}

\* the last prime of a StreamCoordinator.stream call has resolved and every
\* member is playing
GroupBarrierWitness ==
  /\ ran.op = "primed"
  /\ ran.res
  /\ \A s \in Streamers : ~streamers[s].stopped /\ streamers[s].primed = {}

\* the coordinator has been started once, by stream( 0 ), and every member is
\* playing
GroupPlaysFromZero ==
  /\ Len(barriers) = 1
  /\ barriers[1].offset = 0
  /\ ~group.stopped
  /\ \A s \in Streamers : ~streamers[s].stopped

\* C3: after stream( 0 ) on the coordinator, and for as long as it plays, the
\* members' currentTime() are equal at every instant
PhaseAlignment ==
  GroupPlaysFromZero
    => \A s, t \in Streamers :
         StreamerCurrentTime(streamers[s]) = StreamerCurrentTime(streamers[t])

\* C8: stop() on a stopped streamer or coordinator changes nothing, so a
\* second stop() leaves what the first one left
IdempotentStop ==
  /\ \A s \in Streamers :
       /\ streamers[s].stopped => StreamerStop(World, s) = World
       /\ StreamerStop(StreamerStop(World, s), s) = StreamerStop(World, s)
  /\ group.stopped => CoordinatorStop(World) = World
  /\ CoordinatorStop(CoordinatorStop(World)) = CoordinatorStop(World)

\* stop() has run on a stopped coordinator whose members had played
IdempotentStopWitness ==
  /\ ran.op = "gstop"
  /\ ran.was
  /\ group.stopped
  /\ Len(srcs) >= NStreamers
  /\ \A s \in Streamers : streamers[s].stopped /\ streamers[s].active > 1

\* C9: seek( x ) on a stopped streamer writes the stored offset and nothing else
SeekWhileStopped ==
  streamers[Solo].stopped =>
    \A x \in Offsets \ {NULL} :
      /\ ~StreamerSeek(World, Solo, x).threw
      /\ StreamerSeek(World, Solo, x).w = [World EXCEPT !.streamers[Solo].startOffset = x]

\* seek( x ) has run on a stopped streamer that has played before
SeekWhileStoppedWitness ==
  /\ ran.op = "seek"
  /\ ran.was
  /\ srcs # <<>>
  /\ streamers[Solo].stopped
  /\ streamers[Solo].startOffset = ran.arg

\* the final segment's onended has just run on a streamer that played one
\* gapless run of windows up to the end of the asset: no fetch failed, and no
\* stop(), seek() or second stream() came in between
PlayedThrough ==
  /\ ran.op = "ended"
  /\ ~ran.was
  /\ failures = 0
  /\ \A i \in DOMAIN srcs : srcs[i].owner = Solo /\ srcs[i].output = 1
  /\ \A i \in 1..(Len(srcs) - 1) :
       /\ srcs[i + 1].offset = srcs[i].offset + srcs[i].dur
       /\ srcs[i + 1].when = srcs[i].when + srcs[i].dur
  /\ srcs[Len(srcs)].offset + srcs[Len(srcs)].dur = streamers[Solo].duration

\* C10: once the final segment has played to its end the streamer has stopped
\* itself, and currentTime() is 0
NaturalCompletion ==
  PlayedThrough
    => /\ streamers[Solo].stopped
       /\ StreamerCurrentTime(streamers[Solo]) = 0

\* C11: currentTime() of a playing streamer never returns the duration or more:
\* at or past the end of the asset the call stops the streamer and returns 0
CurrentTimeOverrun ==
  (streamers[Solo].ready /\ ~streamers[Solo].stopped)
    => StreamerCurrentTime(streamers[Solo]) < streamers[Solo].duration

\* the coordinator's cursor: stored offset plus the time since its start time
GroupCursor ==
  Num(group.startOffset) + (IF group.startTime = NULL THEN 0 ELSE now - group.startTime)

\* C12: currentTime() on a coordinator that plays at or past its duration stops
\* it and returns 0: afterwards the coordinator and its members are stopped,
\* its start time is cleared and its stored offset is 0
GroupCurrentTimeOverrun ==
  /\ (~group.stopped /\ group.duration # NULL /\ GroupCursor >= group.duration)
       => LET r == CoordinatorCurrentTime(World)
          IN /\ r.value = 0
             /\ r.w.group.stopped
             /\ r.w.group.startTime = NULL
             /\ r.w.group.startOffset = 0
             /\ \A s \in Streamers : r.w.streamers[s].stopped
  /\ (ran.op = "gcurrentTime" /\ ran.res)
       => /\ ran.arg = 0
          /\ group.stopped
          /\ group.startTime = NULL
          /\ group.startOffset = 0

\* currentTime() has stopped a coordinator whose members had played
GroupCurrentTimeOverrunWitness ==
  /\ ran.op = "gcurrentTime"
  /\ ran.res
  /\ ~ran.was
  /\ group.stopped
  /\ Len(srcs) >= NStreamers

\* the gains of the members, in the order of the coordinator's list
Gains(W) == [s \in Streamers |-> W.streamers[s].gain]

\* C13: solo( index ) leaves gain 1 on the member at index and gain 0 on every
\* other member, changes nothing else, and a second solo() overrides the first
SoloGains ==
  /\ \A i \in SoloIndexes :
       i + 1 \in Streamers =>
         LET r == CoordinatorSolo(World, i)
         IN /\ ~r.threw
            /\ Gains(r.w) = [s \in Streamers |-> IF s = i + 1 THEN 1 ELSE 0]
            /\ r.w = [World EXCEPT !.streamers =
                        [s \in Streamers |-> [@[s] EXCEPT !.gain = Gains(r.w)[s]]]]
            /\ \A j \in SoloIndexes :
                 j + 1 \in Streamers =>
                   CoordinatorSolo(CoordinatorSolo(World, j).w, i).w = r.w
  /\ (ran.op = "solo" /\ ~ran.res)
       => Gains(World) = [s \in Streamers |-> IF s = ran.arg + 1 THEN 1 ELSE 0]

\* solo() has run on a coordinator whose members are playing
SoloGainsWitness ==
  /\ ran.op = "solo"
  /\ ~ran.res
  /\ ~group.stopped
  /\ \A s \in Streamers : ~streamers[s].stopped
  /\ \E s \in Streamers : streamers[s].gain = 0

\* C14: stream() on a streamer that is not loaded, or that is playing, throws
\* and changes nothing: no field, source, timer or fetch
StreamRejects ==
  /\ \A x \in Offsets :
       LET st == streamers[Solo]
           r == StreamerStream(World, Solo, x)
       IN /\ ~st.ready => (StreamError(st) = "not loaded" /\ r.threw /\ r.w = World)
          /\ (st.ready /\ ~st.stopped)
               => (StreamError(st) = "already playing" /\ r.threw /\ r.w = World)
  /\ (ran.op = "stream" /\ ~ran.was) => ran.res

\* stream() has been refused on a streamer that is playing
StreamRejectsWitness ==
  /\ ran.op = "stream"
  /\ ran.res
  /\ ~ran.was
  /\ ~streamers[Solo].stopped
  /\ srcs # <<>>

\* C15: getAudioBuffer for a window that ends beyond the asset's duration
\* throws, returns no window and asks for no chunk
OutOfRange ==
  /\ dbMetadata # {} =>
       \A offset \in 0..(AbDuration(ab) + 1) :
         \A duration \in 1..(AbDuration(ab) + 1) :
           offset + duration > getMetadata(dbMetadata).duration =>
             getAudioBuffer(dbChunks, dbMetadata, opts, offset, duration)
               = Failure("beyond track duration")
  /\ (got.called /\ got.saved /\ got.offset + got.duration > AbDuration(ab))
       => (~got.result.ok /\ got.result.reads = <<>> /\ got.result.channels = <<>>)

\* a window beyond the end of a saved asset has been asked for
OutOfRangeWitness ==
  /\ got.called
  /\ got.saved
  /\ got.offset + got.duration > AbDuration(ab)
  /\ got.result.why = "beyond track duration"

\* C16: a streamer whose load() failed is still not loaded, and on a streamer
\* that is not loaded stream() and prime() throw and stop() does nothing
LoadFailureKeepsUnloaded ==
  /\ ran.op = "loadFailed" => ~streamers[ran.arg].ready
  /\ ~streamers[Solo].ready =>
       /\ streamers[Solo].stopped
       /\ StreamError(streamers[Solo]) = "not loaded"
       /\ \A x \in Offsets :
            /\ StreamerStream(World, Solo, x) = [w |-> World, threw |-> TRUE]
            /\ StreamerPrime(World, Solo, x, 0) = [w |-> World, threw |-> TRUE]
       /\ StreamerStop(World, Solo) = World

\* a load() has failed and the streamer is not loaded
LoadFailureKeepsUnloadedWitness ==
  /\ ran.op = "loadFailed"
  /\ ~ran.was
  /\ ~streamers[Solo].ready
  /\ calls > 0

\* the sources of streamer s that are connected to its active chain
OnActive(W, s) ==
  {i \in DOMAIN W.srcs : W.srcs[i].owner = s /\ W.srcs[i].output = W.streamers[s].active}

\* C17: seek( x ) with x below the duration on a playing streamer leaves it
\* running with stored offset x on a new active chain; no source scheduled
\* before is connected to that chain, the fetch timer is cleared, and the one
\* window it schedules or fetches is the one at offset x
SeekWhilePlaying ==
  LET st == streamers[Solo]
      first == CHOOSE i \in OnActive(World, Solo) : \A j \in OnActive(World, Solo) : i <= j
  IN /\ (st.ready /\ ~st.stopped) =>
          \A x \in Offsets \ {NULL} :
            x < st.duration =>
              LET r == StreamerSeek(World, Solo, x)
                  a == r.w.streamers[Solo]
                  newSrcs == {i \in DOMAIN r.w.srcs : i > Len(srcs)}
                  newFetches == r.w.fetches \ fetches
              IN /\ ~r.threw
                 /\ ~a.stopped
                 /\ a.startOffset = x
                 /\ a.active # st.active
                 /\ \A i \in DOMAIN srcs : r.w.srcs[i].output # a.active
                 /\ st.fetchtimer \cap r.w.timers = {}
                 /\ \A i \in newSrcs :
                      r.w.srcs[i].offset = x /\ r.w.srcs[i].output = a.active
                 /\ \A f \in newFetches :
                      f.kind = "next" /\ f.offset = x /\ f.output = a.active
                 /\ Cardinality(newSrcs) + Cardinality(newFetches) = 1
     /\ (~st.stopped /\ OnActive(World, Solo) # {})
          => srcs[first].offset = st.startOffset
     /\ (ran.op = "seek" /\ ~ran.was /\ ran.arg < st.duration)
          => (~ran.res /\ ~st.stopped /\ st.startOffset = ran.arg)

\* seek() has restarted a streamer that had scheduled a window
SeekWhilePlayingWitness ==
  /\ ran.op = "seek"
  /\ ~ran.was
  /\ ran.arg < streamers[Solo].duration
  /\ ~streamers[Solo].stopped
  /\ srcs # <<>>
  /\ streamers[Solo].startOffset = ran.arg

\* C18: when the Promise.all of a seek() on a running coordinator is fulfilled,
\* with the offset below every member's duration, every member plays from that
\* offset and the coordinator's stored offset is that offset
GroupSeekWhileRunning ==
  LET last == barriers[Len(barriers)]
  IN (/\ ran.op = "primed"
      /\ ran.res
      /\ Len(barriers) >= 2
      /\ last.started # {}
      /\ ~group.stopped
      /\ \A s \in Streamers : last.offset < streamers[s].duration)
       => /\ group.startOffset = last.offset
          /\ \A s \in Streamers :
               ~streamers[s].stopped /\ streamers[s].startOffset = last.offset

\* C19: prime() adds one fetch and nothing else, and when the fetch resolves
\* only the primed segment changes, tagged with the offset: the running flag,
\* stored offset, start time and active chain stay, and no source is scheduled
PrimeOnlyStages ==
  /\ streamers[Solo].ready =>
       \A x \in Offsets :
         LET r == StreamerPrime(World, Solo, x, 0)
             x0 == DefaultOffset(x, streamers[Solo].startOffset)
         IN /\ r.w = [World EXCEPT !.fetches = r.w.fetches]
            /\ r.threw <=> x0 >= streamers[Solo].duration
            /\ r.threw => r.w = World
            /\ ~r.threw =>
                 /\ Cardinality(r.w.fetches \ fetches) <= 1
                 /\ fetches \subseteq r.w.fetches
                 /\ \A f \in r.w.fetches \ fetches :
                      f.kind = "prime" /\ f.owner = Solo /\ f.offset = x0
  /\ \A f \in fetches :
       f.kind = "prime" =>
         LET W == PrimeThen(World, f)
             a == W.streamers[f.owner]
             st == streamers[f.owner]
         IN /\ a.primed = {[offset |-> f.offset, dur |-> f.dur]}
            /\ [a EXCEPT !.primed = st.primed] = st
            /\ W = [World EXCEPT !.streamers = W.streamers]
            /\ \A s \in Streamers \ {f.owner} : W.streamers[s] = streamers[s]

\* the fetch of a prime() has resolved on a streamer that is playing
PrimeOnlyStagesWitness ==
  /\ ran.op = "primed"
  /\ ~streamers[Solo].stopped
  /\ streamers[Solo].primed # {}
  /\ srcs # <<>>

\* C20: stop() on a playing streamer stores the position currentTime() would
\* have returned just before, or 0 if that is the duration or more, and clears
\* the start time
StopPreservesPosition ==
  LET st == streamers[Solo]
      ct == StreamerCurrentTime(st)
      a == StreamerStop(World, Solo).streamers[Solo]
  IN (st.ready /\ ~st.stopped)
       => /\ a.stopped
          /\ a.startTime = NULL
          /\ a.startOffset = IF ct >= st.duration THEN 0 ELSE ct

\* C21: stop() on a running coordinator stores the position its currentTime()
\* would have returned just before, or 0 at or past the duration, clears the
\* start time and marks the coordinator stopped
GroupStopPreservesPosition ==
  LET a == CoordinatorStop(World).group
  IN (~group.stopped /\ group.duration # NULL)
       => /\ a.stopped
          /\ a.startTime = NULL
          /\ a.startOffset = IF GroupCursor >= group.duration THEN 0 ELSE GroupCursor

LoopOf(W, s, output) ==
  {f \in W.fetches : f.kind = "next" /\ f.owner = s /\ f.output = output}
    \cup {t \in W.timers : t.owner = s /\ t.output = output}

\* C23: a failed fetch of the look-ahead loop is not retried and ends the
\* loop: the run has no fetch and no fetch timer left; the sources scheduled
\* stay as they are and the streamer's fields are not changed
LoopFetchFailure ==
  /\ \A f \in fetches :
       f.kind = "next" =>
         LET W == NextCatch(World, f)
         IN /\ W = [World EXCEPT !.fetches = W.fetches]
            /\ W.fetches = fetches \ {f}
            /\ LoopOf(W, f.owner, f.output) = {}
  /\ (ran.op = "catch" /\ ran.arg = streamers[Solo].active)
       => LoopOf(World, Solo, ran.arg) = {}

\* a fetch of a playing streamer's loop has failed after a window was scheduled
LoopFetchFailureWitness ==
  /\ ran.op = "catch"
  /\ ran.arg = streamers[Solo].active
  /\ ~ran.was
  /\ ~streamers[Solo].stopped
  /\ OnActive(World, Solo) # {}

\* source j is the one scheduled after source i in the same run
NextInRun(i, j) ==
  /\ i < j
  /\ srcs[i].owner = srcs[j].owner
  /\ srcs[i].output = srcs[j].output
  /\ \A k \in DOMAIN srcs :
       (i < k /\ k < j) => ~(srcs[k].owner = srcs[i].owner /\ srcs[k].output = srcs[i].output)

\* C24: the sources of one run are contiguous: the first one of a running
\* streamer starts at the stored offset, each next one starts where the one
\* before ends, in clock time and in asset offset, every window is
\* min( 5, duration - offset ) long and none reaches past the duration
GaplessContiguity ==
  LET st == streamers[Solo]
      first == CHOOSE i \in OnActive(World, Solo) : \A j \in OnActive(World, Solo) : i <= j
  IN /\ (~st.stopped /\ OnActive(World, Solo) # {}) => srcs[first].offset = st.startOffset
     /\ \A i, j \in DOMAIN srcs :
          NextInRun(i, j) =>
            /\ srcs[j].when = srcs[i].when + srcs[i].dur
            /\ srcs[j].offset = srcs[i].offset + srcs[i].dur
            /\ srcs[j].when >= srcs[i].when
     /\ \A i \in DOMAIN srcs :
          LET duration == streamers[srcs[i].owner].duration
          IN /\ srcs[i].dur = Min(WindowSeconds, duration - srcs[i].offset)
             /\ srcs[i].dur > 0
             /\ srcs[i].offset + srcs[i].dur <= duration

\* a running streamer has scheduled two windows in its run
GaplessContiguityWitness ==
  /\ ~streamers[Solo].stopped
  /\ Cardinality(OnActive(World, Solo)) >= 2
  /\ ran.op = "then"
  /\ ran.res

\* C25: the ended event of a final source of an earlier run changes nothing
\* of a streamer that is running again: not its flag, cursor or chain
StaleEnding ==
  \A i \in DOMAIN srcs :
    LET s == srcs[i].owner
    IN (~srcs[i].ended /\ srcs[i].output # streamers[s].active /\ ~streamers[s].stopped)
         => /\ srcs[i].onended # "stop"
            /\ EndedHandler(World, i) = World

\* the final source of an earlier run has ended while the streamer runs again
StaleEndingWitness ==
  /\ ran.op = "ended"
  /\ ~ran.res
  /\ srcs[ran.arg].ended
  /\ srcs[ran.arg].output # streamers[Solo].active
  /\ ~streamers[Solo].stopped

\* C26: a stopped streamer has no fetch timer pending, and the ended event of
\* any of its sources changes nothing
TimerCancellation ==
  \A s \in Streamers :
    streamers[s].stopped =>
      /\ {t \in timers : t.owner = s} = {}
      /\ \A i \in DOMAIN srcs : srcs[i].owner = s => EndedHandler(World, i) = World

\* stop() has cleared a fetch timer that was not yet due
TimerCancellationWitness ==
  /\ ran.op = "stop"
  /\ ~ran.was
  /\ streamers[Solo].stopped
  /\ \E t \in streamers[Solo].fetchtimer : t.due > now /\ t \notin timers

\* member s has scheduled the first source of its run at clock time when and
\* offset x, and has no fetch of a first window in flight
StartedPrimedAt(s, x, when) ==
  /\ ~streamers[s].stopped
  /\ \E i \in OnActive(World, s) :
       /\ \A j \in OnActive(World, s) : i <= j
       /\ srcs[i].when = when
       /\ srcs[i].offset = x
  /\ \A f \in fetches :
       ~(f.kind = "next" /\ f.owner = s /\ f.output = streamers[s].active /\ f.when = 0)

\* C27: when the Promise.all of a StreamCoordinator.stream( offset ) call is
\* fulfilled, every member schedules its first source at that clock time and
\* at that offset, from its primed segment and without a fetch
GroupStartAlignment ==
  (ran.op = "primed" /\ ran.res)
    => \E when \in 0..now :
         \A s \in Streamers : StartedPrimedAt(s, barriers[ran.arg].offset, when)

\* the sources of the run of streamer s on chain output
RunOf(s, output) ==
  {i \in DOMAIN srcs : srcs[i].owner = s /\ srcs[i].output = output}

\* C28: the fetch of a further window is issued only once the window before it
\* is scheduled, and not more than the lead of 2 s before that window ends; a
\* run has at most one fetch or fetch timer pending and at most one scheduled
\* source that has not begun to play
Backpressure ==
  /\ \A f \in fetches :
       (f.kind = "next" /\ f.when # 0) =>
         /\ f.issued >= f.when - FetchLeadSeconds
         /\ \E i \in RunOf(f.owner, f.output) :
              /\ srcs[i].when + srcs[i].dur = f.when
              /\ srcs[i].offset + srcs[i].dur = f.offset
              /\ \A j \in RunOf(f.owner, f.output) : j <= i
  /\ \A t \in timers : t.due >= t.when - FetchLeadSeconds
  /\ \A s \in Streamers :
       \A output \in 1..streamers[s].active :
         /\ Cardinality(LoopOf(World, s, output)) <= 1
         /\ Cardinality({i \in RunOf(s, output) : srcs[i].when > now}) <= 1

\* the fetch of a second window is in flight, issued when the lead began
BackpressureWitness ==
  /\ ~streamers[Solo].stopped
  /\ ran.op = "timer"
  /\ \E f \in fetches :
       /\ f.kind = "next"
       /\ f.output = streamers[Solo].active
       /\ f.when # 0
       /\ f.issued = f.when - FetchLeadSeconds

\* C29: while the coordinator is stopped no member is running
StoppedGroupIsSilent ==
  group.stopped => \A s \in Streamers : streamers[s].stopped

\* the source of streamer s that sounds at the current clock time
Sounding(s) ==
  {i \in OnActive(World, s) : srcs[i].when <= now /\ now < srcs[i].when + srcs[i].dur}

\* C30: while a streamer plays a source, currentTime() is the asset offset
\* that sounds: the source's offset plus the time since its start
CursorTracksAudio ==
  \A i \in Sounding(Solo) :
    ~streamers[Solo].stopped
      => StreamerCurrentTime(streamers[Solo]) = srcs[i].offset + (now - srcs[i].when)

\* the fetch timers of streamer s and its fetches that are not stale
LiveLoop(W, s) ==
  {t \in W.timers : t.owner = s}
    \cup {f \in W.fetches : /\ f.kind = "next"
                            /\ f.owner = s
                            /\ ~IsStale(W.streamers[s], f.output)}

\* C31: a streamer has at most one fetch timer or fetch that is not stale
\* pending; while it is stopped it has none and no source is connected to its
\* active chain, so every source on the active chain of a running streamer
\* was scheduled since the stream() call that started it
OneLiveLoop ==
  \A s \in Streamers :
    /\ Cardinality(LiveLoop(World, s)) <= 1
    /\ streamers[s].stopped => (LiveLoop(World, s) = {} /\ OnActive(World, s) = {})
    /\ (streamers[s].ready /\ streamers[s].stopped) =>
         \A x \in Offsets :
           LET r == StreamerStream(World, s, x)
           IN /\ \A i \in OnActive(r.w, s) : i > Len(srcs)
              /\ Cardinality(LiveLoop(r.w, s)) <= 1

\* a streamer running again has scheduled a window and armed its timer while
\* a fetch of the run before is still in flight
OneLiveLoopWitness ==
  /\ ~streamers[Solo].stopped
  /\ OnActive(World, Solo) # {}
  /\ \E i \in DOMAIN srcs : srcs[i].output # streamers[Solo].active
  /\ \E t \in timers : t.owner = Solo
  /\ \E f \in fetches : f.kind = "next" /\ f.output # streamers[Solo].active

\* C32: once the primes of a coordinator stream( offset ) with the offset
\* below the coordinator's duration have settled, every member longer than
\* the offset plays from it, whatever the other members' durations
UnevenStart ==
  LET b == Len(barriers)
  IN (/\ ran.op = "primed"
      /\ ran.arg = b
      /\ ~group.stopped
      /\ failures = 0
      /\ barriers[b].pending = {}
      /\ barriers[b].offset < group.duration)
       => \A s \in Streamers :
            streamers[s].duration > barriers[b].offset
              => (~streamers[s].stopped /\ streamers[s].startOffset = barriers[b].offset)

vars == <<storeVars, playVars>>

\* the store under the scheduler's specifications: one asset, not yet saved
StoreAtRest ==
  /\ opts = [duration |-> 1, blobs |-> TRUE, textDecoder |-> TRUE]
  /\ ab = MakeBuffer(1, 1, 1, 0, 0, 0)
  /\ dbChunks = <<>>
  /\ dbMetadata = {}
  /\ savePc = 0
  /\ got = NoResult

InitStoreSpec == InitStore /\ InitPlay

SpecStore == InitStoreSpec /\ [][NextStore]_vars

Init == StoreAtRest /\ InitPlay

Spec == Init /\ [][NextSolo]_vars

SpecLoop == Init /\ [][NextLoop]_vars

SpecGroup == Init /\ [][NextGroup]_vars

SpecSeek == Init /\ [][NextSeek]_vars

SpecMixer == Init /\ [][NextMixer]_vars

====
